---- MODULE Spec2Model ----
(***************************************************************************)
(* Model of monitor.py: the polling loop of the uptime monitor.            *)
(*                                                                         *)
(* The program is one `while True` loop.  Every statement of the loop body *)
(* is one action; pc names the line the process is about to execute.  A    *)
(* statement either completes or raises; what is raised is looked up       *)
(* against the `except Exception` clause of line 17.                       *)
(***************************************************************************)
EXTENDS Integers, Sequences, FiniteSets, TLC

\* ------------------------------------------------------------------ bounds
\* Iterations of the loop that are explored.
MaxIter == 2

\* ------------------------------------------------------------- configuration
host == "get-lookover-auto-sync-api.rf.gd"
path == "/script.php"
SleepSeconds == 1

None == "None"

\* A name that is not bound: response before line 11 has run, e outside the
\* except clause.
NoResponse == [status |-> 0, reason |-> ""]
NoException == [type |-> None, errno |-> 0, msg |-> ""]

\* ------------------------------------------------- what the environment gives
\* Status lines a server can answer with (response.status, response.reason).
Responses ==
  { [status |-> 200, reason |-> "OK"],
    [status |-> 404, reason |-> "Not Found"] }

\* Exceptions the statements of the loop can raise, with what str(e) is built
\* from: an OSError carries (errno, strerror), the others one message (errno 0
\* stands for "no errno").
ConnRefused   == [type |-> "ConnectionRefusedError", errno |-> 111, msg |-> "Connection refused"]
NameUnknown   == [type |-> "gaierror", errno |-> -2, msg |-> "Name or service not known"]
RemoteClosed  == [type |-> "RemoteDisconnected", errno |-> 0,
                  msg |-> "Remote end closed connection without response"]
IncompleteRd  == [type |-> "IncompleteRead", errno |-> 0, msg |-> "IncompleteRead(0 bytes read)"]
BrokenPipe    == [type |-> "BrokenPipeError", errno |-> 32, msg |-> "Broken pipe"]
SSLContextErr == [type |-> "SSLError", errno |-> 0, msg |-> "unable to load trusted certificates"]
BadDescriptor == [type |-> "OSError", errno |-> 9, msg |-> "Bad file descriptor"]
KeyboardInterrupt == [type |-> "KeyboardInterrupt", errno |-> 0, msg |-> ""]

\* Classes derived from Exception; KeyboardInterrupt derives from BaseException
\* only.
ExceptionClasses ==
  { "ConnectionRefusedError", "gaierror", "RemoteDisconnected", "IncompleteRead",
    "BrokenPipeError", "SSLError", "OSError" }

\* ------------------------------------------------------------ pure functions
Digit == <<"0", "1", "2", "3", "4", "5", "6", "7", "8", "9">>

RECURSIVE NatStr(_)
NatStr(n) == IF n < 10 THEN Digit[n + 1]
             ELSE NatStr(n \div 10) \o Digit[(n % 10) + 1]

\* str(int)
IntStr(n) == IF n < 0 THEN "-" \o NatStr(0 - n) ELSE NatStr(n)

\* str(e): "[Errno n] strerror" for an OSError with an errno, the message
\* otherwise.
ExcStr(x) == IF x.errno # 0 THEN "[Errno " \o IntStr(x.errno) \o "] " \o x.msg
             ELSE x.msg

\* A status line that leaves the reason phrase out.
StatusLineNoReason(r) == "Status: " \o IntStr(r.status)

\* f"Status: {response.status} {response.reason}"
StatusLine(r) == "Status: " \o IntStr(r.status) \o " " \o r.reason

\* f"Request failed: {e}"
FailedLine(x) == "Request failed: " \o ExcStr(x)

\* A bare `except:` takes everything, KeyboardInterrupt included.
CatchesBare(x) == x.type \in ExceptionClasses \cup {"KeyboardInterrupt"}

\* `except Exception as e`: the clause takes what derives from Exception.
Catches(x) == x.type \in ExceptionClasses

\* Lines 9..16: the statements inside `try:`.
TryBody == {"L9", "L10", "L11", "L12", "L13", "L16"}

\* What the socket of a connection can be after a library call on it raised:
\* the call may have failed before or after the socket was connected, and the
\* library closes the socket itself on some errors.
SockAfterFailure(before) ==
  IF before = "idle" THEN {"idle", "open"} ELSE {before, "closed"}

VARIABLES
  pc,        \* line about to be executed, or "terminated"
  iter,      \* number of the current iteration of `while True`, from 1
  conn,      \* the connection the name `conn` is bound to (0: unbound)
  sock,      \* per connection: "none", "idle" (no socket yet), "open", "closed"
  response,  \* the name `response`: a status line or NoResponse
  e,         \* the name `e` inside the except clause, or NoException
  stdout,    \* the lines written to standard output
  log,       \* history: the events of the run, in order
  target,    \* the module globals host and path
  exit       \* why the process ended: None, "KeyboardInterrupt", or an exception type

vars == <<pc, iter, conn, sock, response, e, stdout, log, target, exit>>

Conns == 1..MaxIter

\* The request sent over a plain HTTPConnection.
RequestLinePlain == "GET http://" \o target.host \o target.path

\* conn.request("GET", path) on HTTPSConnection(host)
RequestLine == "GET https://" \o target.host \o target.path

\* An event of the history: which iteration, what happened, on which
\* connection, at which line.  arg is the request sent or the class raised,
\* status and reason the status line received, secs the time slept.
Event(kind) == [iter |-> iter, kind |-> kind, conn |-> conn, at |-> pc,
                arg |-> "", status |-> 0, reason |-> "", secs |-> 0]

Init ==
  /\ pc = "L9"
  /\ iter = 1
  /\ conn = 0
  /\ sock = [c \in Conns |-> "none"]
  /\ response = NoResponse
  /\ e = NoException
  /\ stdout = <<>>
  /\ log = <<>>
  /\ target = [host |-> host, path |-> path]
  /\ exit = None

\* An exception x leaves the statement at pc (lg: the history so far).  Inside
\* the try body, and if the except clause takes it, control goes to the handler
\* with e bound to it; otherwise nothing is left to take it and the process
\* ends with a traceback.
Raise(x, lg) ==
  /\ log' = Append(lg, [Event("raise") EXCEPT !.arg = x.type])
  /\ IF pc \in TryBody /\ Catches(x)
     THEN /\ pc' = "L18"
          /\ e' = x
          /\ exit' = exit
     ELSE /\ pc' = "terminated"
          /\ e' = e
          /\ exit' = x.type

\* A connection built once and kept: later iterations find conn bound and
\* send on it again.
NewConnectionKept ==
  /\ pc = "L9"
  /\ IF conn = 0
     THEN /\ sock' = [sock EXCEPT ![iter] = "idle"]
          /\ conn' = iter
          /\ log' = Append(log, [Event("connect") EXCEPT !.conn = iter])
     ELSE UNCHANGED <<conn, sock, log>>
  /\ pc' = "L10"
  /\ UNCHANGED <<target, iter, response, stdout, e, exit>>

\* Line 9: conn = http.client.HTTPSConnection(host)
\* On success the object is built and bound to conn; the object conn named
\* before loses its last reference, and its socket may be finalised.
NewConnection ==
  /\ pc = "L9"
  /\ \/ /\ \E old \in (IF conn # 0 /\ sock[conn] = "open" THEN {"open", "closed"}
                       ELSE IF conn # 0 THEN {sock[conn]} ELSE {"none"}) :
             sock' = [c \in Conns |-> IF c = iter THEN "idle"
                                      ELSE IF c = conn THEN old ELSE sock[c]]
        /\ conn' = iter
        /\ log' = Append(log, [Event("connect") EXCEPT !.conn = iter])
        /\ pc' = "L10"
        /\ UNCHANGED <<e, exit>>
     \/ /\ Raise(SSLContextErr, log)
        /\ UNCHANGED <<conn, sock>>
  /\ UNCHANGED <<target, iter, response, stdout>>

\* Line 10: conn.request("GET", path)
Request ==
  /\ pc = "L10"
  /\ LET sent == Append(log, [Event("request") EXCEPT !.arg = RequestLine]) IN
     \/ /\ sock' = [sock EXCEPT ![conn] = "open"]
        /\ log' = sent
        /\ pc' = "L11"
        /\ UNCHANGED <<e, exit>>
     \/ /\ \E x \in {NameUnknown, ConnRefused} : Raise(x, sent)
        /\ \E s \in SockAfterFailure(sock[conn]) : sock' = [sock EXCEPT ![conn] = s]
  /\ UNCHANGED <<target, iter, conn, response, stdout>>

\* Line 11: response = conn.getresponse()
GetResponse ==
  /\ pc = "L11"
  /\ \/ /\ \E r \in Responses :
             /\ response' = r
             /\ log' = Append(log, [Event("response") EXCEPT !.status = r.status,
                                                             !.reason = r.reason])
        /\ pc' = "L12"
        /\ UNCHANGED <<e, exit, sock>>
     \/ /\ Raise(RemoteClosed, log)
        /\ \E s \in SockAfterFailure(sock[conn]) : sock' = [sock EXCEPT ![conn] = s]
        /\ UNCHANGED response
  /\ UNCHANGED <<target, iter, conn, stdout>>

\* Line 12: print(f"Status: {response.status} {response.reason}")
PrintStatus ==
  /\ pc = "L12"
  /\ \/ /\ stdout' = Append(stdout, StatusLine(response))
        /\ log' = Append(log, Event("status"))
        /\ pc' = "L13"
        /\ UNCHANGED <<e, exit>>
     \/ /\ Raise(BrokenPipe, log)
        /\ UNCHANGED stdout
  /\ UNCHANGED <<target, iter, conn, sock, response>>

\* Line 13: data = response.read()
ReadBody ==
  /\ pc = "L13"
  /\ \/ /\ log' = Append(log, Event("read"))
        /\ pc' = "L16"
        /\ UNCHANGED <<e, exit, sock>>
     \/ /\ Raise(IncompleteRd, log)
        /\ \E s \in SockAfterFailure(sock[conn]) : sock' = [sock EXCEPT ![conn] = s]
  /\ UNCHANGED <<target, iter, conn, response, stdout>>

\* A close that is named but not called (conn.close without the call).
CloseNotCalled ==
  /\ pc = "L16"
  /\ log' = Append(log, Event("close"))
  /\ pc' = "L19"
  /\ UNCHANGED <<target, iter, conn, sock, response, stdout, e, exit>>

\* Line 16: conn.close()
Close ==
  /\ pc = "L16"
  /\ \/ /\ sock' = [sock EXCEPT ![conn] = "closed"]
        /\ log' = Append(log, Event("close"))
        /\ pc' = "L19"
        /\ UNCHANGED <<e, exit>>
     \/ /\ Raise(BadDescriptor, log)
        /\ UNCHANGED sock
  /\ UNCHANGED <<target, iter, conn, response, stdout>>

\* A handler that ends in `continue`: the next iteration starts with no sleep.
PrintFailedContinue ==
  /\ pc = "L18"
  /\ iter < MaxIter
  /\ stdout' = Append(stdout, FailedLine(e))
  /\ log' = Append(log, Event("failed"))
  /\ pc' = "L9"
  /\ iter' = iter + 1
  /\ e' = NoException
  /\ UNCHANGED <<target, conn, sock, response, exit>>

\* A handler that sends the request again at once.
PrintFailedRetry ==
  /\ pc = "L18"
  /\ Len(log) < 4 * MaxIter
  /\ stdout' = Append(stdout, FailedLine(e))
  /\ log' = Append(log, Event("failed"))
  /\ pc' = IF conn # 0 THEN "L10" ELSE "L19"
  /\ e' = NoException
  /\ UNCHANGED <<target, iter, conn, sock, response, exit>>

\* A handler that reports the last status it knows instead of the error.
PrintFailedStale ==
  /\ pc = "L18"
  /\ stdout' = Append(stdout, IF response # NoResponse THEN StatusLine(response)
                              ELSE FailedLine(e))
  /\ log' = Append(log, Event("failed"))
  /\ pc' = "L19"
  /\ e' = NoException
  /\ UNCHANGED <<target, iter, conn, sock, response, exit>>

\* A handler that sleeps itself before the sleep of line 19.
PrintFailedSleeps ==
  /\ pc = "L18"
  /\ stdout' = Append(stdout, FailedLine(e))
  /\ log' = Append(Append(log, Event("failed")),
                   [Event("sleep") EXCEPT !.secs = SleepSeconds])
  /\ pc' = "L19"
  /\ e' = NoException
  /\ UNCHANGED <<target, iter, conn, sock, response, exit>>

\* Lines 17-18: except Exception as e: print(f"Request failed: {e}")
\* Line 18 is outside the try body: what it raises is taken by nothing.  The
\* name e is unbound when the clause is left.
PrintFailed ==
  /\ pc = "L18"
  /\ \/ /\ stdout' = Append(stdout, FailedLine(e))
        /\ log' = Append(log, Event("failed"))
        /\ pc' = "L19"
        /\ e' = NoException
        /\ exit' = exit
     \/ /\ Raise(BrokenPipe, log)
        /\ UNCHANGED stdout
  /\ UNCHANGED <<target, iter, conn, sock, response>>

\* Line 19: time.sleep(1), then back to line 7.
Sleep ==
  /\ pc = "L19"
  /\ iter < MaxIter
  /\ log' = Append(log, [Event("sleep") EXCEPT !.secs = SleepSeconds])
  /\ iter' = iter + 1
  /\ pc' = "L9"
  /\ UNCHANGED <<target, conn, sock, response, e, stdout, exit>>

\* An external interrupt (SIGINT) arrives while the statement at pc runs:
\* KeyboardInterrupt is raised there.
Interrupt ==
  /\ pc # "terminated"
  /\ Raise(KeyboardInterrupt, log)
  /\ UNCHANGED <<target, iter, conn, sock, response, stdout>>

Next ==
  \/ NewConnection
  \/ Request
  \/ GetResponse
  \/ PrintStatus
  \/ ReadBody
  \/ Close
  \/ PrintFailed
  \/ Sleep
  \/ Interrupt

Spec == Init /\ [][Next]_vars

\* The statements of the program.  The process is one thread that is always
\* scheduled: the statement at pc eventually returns or raises.  An interrupt
\* may come or not.
Step ==
  \/ NewConnection
  \/ Request
  \/ GetResponse
  \/ PrintStatus
  \/ ReadBody
  \/ Close
  \/ PrintFailed
  \/ Sleep

LiveSpec == Init /\ [][Next]_vars /\ WF_vars(Step)

\* ------------------------------------------------------------ the history
Outcomes == {"status", "failed"}

\* Positions of the history holding an event of iteration i of one of kinds.
At(i, kinds) == {k \in 1..Len(log) : log[k].iter = i /\ log[k].kind \in kinds}

Last(S) == CHOOSE k \in S : \A j \in S : j <= k

\* The phase of the poller.
Phase == IF pc = "L19" THEN "Sleeping"
         ELSE IF pc = "terminated" THEN "Terminated"
         ELSE "Requesting"

\* Errors of the request itself: connection creation, request, getresponse,
\* body read.
RequestFailures == {SSLContextErr, NameUnknown, ConnRefused, RemoteClosed, IncompleteRd}

\* ---------------------------------------------------------------- claims

\* C1: when the sleep of an iteration begins, and for every iteration that is
\* over, exactly one outcome line (a Status line or a Request failed line) has
\* been printed for that iteration.
C1_ExactlyOneOutcome ==
  \A i \in 1..iter :
    (i < iter \/ pc = "L19") => Cardinality(At(i, Outcomes)) = 1

\* C2: when the sleep of an iteration begins, and ever after, no connection
\* opened by that iteration or an earlier one is still open.
C2_ClosedBeforeIterationEnds ==
  pc = "L19" => \A c \in Conns : sock[c] # "open"

\* C3: once a request failure has been caught, the failure line derived from
\* it is printed and control reaches the sleep; the process ends there only
\* by an external interrupt.
C3_FailureReportedAndLoopContinues ==
  [][(pc = "L18" /\ e \in RequestFailures /\ exit' # "KeyboardInterrupt")
       => (pc' = "L19" /\ stdout' = Append(stdout, FailedLine(e)))]_vars

\* C4: an external interrupt, wherever it is delivered, ends the process: it
\* is the last event of the run (no Request failed line and no request follow
\* it), the process has ended, and the exit is the interrupt's.
C4_InterruptTerminates ==
  \A k \in 1..Len(log) :
    (log[k].kind = "raise" /\ log[k].arg = "KeyboardInterrupt")
      => /\ k = Len(log)
         /\ pc = "terminated"
         /\ exit = "KeyboardInterrupt"

\* C4 witness: the process was interrupted while awaiting the response of the
\* second iteration, and has ended.
C4_Witness ==
  /\ pc = "terminated"
  /\ Len(log) > 0
  /\ log[Len(log)].arg = "KeyboardInterrupt"
  /\ log[Len(log)].at = "L11"
  /\ log[Len(log)].iter = 2

\* C5: the process is terminated only by an external interrupt.
C5_TerminatesOnlyByInterrupt ==
  pc = "terminated" => exit = "KeyboardInterrupt"

\* C6: before the request of iteration N+1 is sent, an outcome line of
\* iteration N has been printed and the sleep of iteration N has completed.
C6_StrictlySequential ==
  \A k \in 1..Len(log) :
    (log[k].kind = "request" /\ log[k].iter > 1)
      => /\ \E j \in At(log[k].iter - 1, Outcomes) : j < k
         /\ \E j \in At(log[k].iter - 1, {"sleep"}) :
              /\ j < k
              /\ \A o \in At(log[k].iter - 1, Outcomes) : o < j

\* C6 witness: the request of iteration 2 has been sent after an iteration
\* that got no response, reported the failure and slept.
C6_Witness ==
  /\ At(2, {"request"}) # {}
  /\ At(1, {"status"}) = {}
  /\ At(1, {"failed"}) # {}
  /\ At(1, {"sleep"}) # {}

\* C7: the poller is Requesting or Sleeping, starts Requesting, every change
\* of phase goes from one of the two to the other, and the only other state
\* is the termination by an external interrupt.
C7_TwoAlternatingStates ==
  /\ Phase = "Requesting"
  /\ [][Phase' # Phase =>
          \/ Phase = "Requesting" /\ Phase' = "Sleeping"
          \/ Phase = "Sleeping" /\ Phase' = "Requesting"
          \/ Phase' = "Terminated" /\ exit' = "KeyboardInterrupt"]_vars

\* The lines the specification gives for each answer and each error.
ExpectedStatus(c, r) ==
  CASE c = 200 /\ r = "OK" -> "Status: 200 OK"
    [] c = 404 /\ r = "Not Found" -> "Status: 404 Not Found"
    [] OTHER -> "?"

ExpectedFailed(t) ==
  CASE t = "ConnectionRefusedError" -> "Request failed: [Errno 111] Connection refused"
    [] t = "gaierror" -> "Request failed: [Errno -2] Name or service not known"
    [] t = "RemoteDisconnected" -> "Request failed: Remote end closed connection without response"
    [] t = "IncompleteRead" -> "Request failed: IncompleteRead(0 bytes read)"
    [] t = "BrokenPipeError" -> "Request failed: [Errno 32] Broken pipe"
    [] t = "SSLError" -> "Request failed: unable to load trusted certificates"
    [] t = "OSError" -> "Request failed: [Errno 9] Bad file descriptor"
    [] OTHER -> "?"

\* The number of outcome lines printed up to position k of the history.
LinesUpTo(k) == Cardinality({j \in 1..k : log[j].kind \in Outcomes})

\* The latest event of one of kinds in the iteration of position k, before k.
Before(k, kinds) == log[Last({j \in At(log[k].iter, kinds) : j < k})]

\* C8: standard output holds one line per outcome, in order; a Status line is
\* exactly "Status: c r" for the status line c r that iteration received, and
\* a failure line is "Request failed: " followed by the text of the error the
\* handler caught.
C8_LinesAsSpecified ==
  /\ Len(stdout) = LinesUpTo(Len(log))
  /\ \A k \in 1..Len(log) :
       /\ log[k].kind = "status"
            => stdout[LinesUpTo(k)] =
                 ExpectedStatus(Before(k, {"response"}).status,
                                Before(k, {"response"}).reason)
       /\ log[k].kind = "failed"
            => stdout[LinesUpTo(k)] = ExpectedFailed(Before(k, {"raise"}).arg)

\* C8 witness: a 404 was reported in one iteration and an unknown host in
\* another.
C8_Witness ==
  /\ \E k \in 1..Len(stdout) : stdout[k] = "Status: 404 Not Found"
  /\ \E k \in 1..Len(stdout) :
       stdout[k] = "Request failed: [Errno -2] Name or service not known"

\* Requests sent and not yet answered: no response and no error has followed.
InFlight ==
  {k \in 1..Len(log) :
     /\ log[k].kind = "request"
     /\ \A j \in (k + 1)..Len(log) : log[j].kind \notin {"response", "raise"}}

\* C9: every request is sent on the connection created by its own iteration,
\* created before the request, and at most one request is in flight.
C9_OwnConnectionOnly ==
  /\ \A k \in 1..Len(log) :
       log[k].kind = "request"
         => /\ log[k].conn = log[k].iter
            /\ \E j \in At(log[k].iter, {"connect"}) :
                 j < k /\ log[j].conn = log[k].conn
  /\ Cardinality(InFlight) <= 1

\* C9 witness: the second iteration has its request in flight on its own
\* connection while the connection of the first is still open.
C9_Witness ==
  /\ pc = "L11"
  /\ iter = 2
  /\ conn = 2
  /\ sock[1] = "open"
  /\ InFlight # {}

\* C10: an iteration sends at most one GET, and after a failure of iteration N
\* the next GET belongs to iteration N+1 and follows the sleep of iteration N.
C10_NoRetryWithinIteration ==
  /\ \A i \in 1..iter : Cardinality(At(i, {"request"})) <= 1
  /\ \A k \in {n \in 1..Len(log) : log[n].kind = "raise"} :
       \A j \in {n \in (k + 1)..Len(log) : log[n].kind = "request"} :
         /\ log[j].iter > log[k].iter
         /\ \E m \in At(log[k].iter, {"sleep"}) : k < m /\ m < j

\* C10 witness: the request of the first iteration failed, and the second
\* iteration has sent the next one.
C10_Witness ==
  /\ \E k \in At(1, {"raise"}) : log[k].at = "L10"
  /\ Cardinality(At(1, {"request"})) = 1
  /\ At(2, {"request"}) # {}

\* C11: between the last outcome line of iteration N and the request of
\* iteration N+1 the loop has slept exactly once, for 1 second, whether
\* iteration N succeeded or failed.
C11_OneSleepOfOneSecond ==
  \A k \in {n \in 1..Len(log) : log[n].kind = "request" /\ log[n].iter > 1} :
    /\ At(log[k].iter - 1, Outcomes) # {}
    /\ LET o == Last(At(log[k].iter - 1, Outcomes))
           sleeps == {j \in (o + 1)..(k - 1) : log[j].kind = "sleep"}
       IN  /\ Cardinality(sleeps) = 1
           /\ \A j \in sleeps : log[j].secs = 1 /\ log[j].iter = log[k].iter - 1

\* C11 witness: the first iteration got no response (getresponse raised), the
\* failure was reported, and the second iteration has sent its request.
C11_Witness ==
  /\ \E k \in At(1, {"raise"}) : log[k].at = "L11"
  /\ At(1, {"failed"}) # {}
  /\ At(2, {"request"}) # {}

\* C12: with no external interrupt, every request is eventually followed by
\* an outcome line of its iteration, by the sleep of its iteration and by the
\* start of the next iteration.
C12_RunsForever ==
  \A i \in 1..(MaxIter - 1) :
    (At(i, {"request"}) # {})
      ~> \/ exit = "KeyboardInterrupt"
         \/ /\ At(i, Outcomes) # {}
            /\ At(i, {"sleep"}) # {}
            /\ iter > i

\* C13: a Status line is printed only after the body of that iteration's
\* response has been read, so only for an iteration in which the connection,
\* the request and the body read raised nothing.
C13_BodyReadBeforeStatus ==
  \A k \in {n \in 1..Len(log) : log[n].kind = "status"} :
    /\ \E j \in At(log[k].iter, {"read"}) : j < k
    /\ \A j \in At(log[k].iter, {"raise"}) :
         log[j].at \notin {"L9", "L10", "L11", "L13"}

\* What an outcome line may depend on: the kind of the outcome and what its
\* own iteration received (the status line) or raised (the error).
OwnInput(k) ==
  IF log[k].kind = "status"
  THEN [kind |-> "status", status |-> Before(k, {"response"}).status,
        reason |-> Before(k, {"response"}).reason, arg |-> ""]
  ELSE [kind |-> "failed", status |-> 0, reason |-> "",
        arg |-> Before(k, {"raise"}).arg]

\* C14: the line printed for an outcome is determined by what happened in its
\* own iteration: two outcomes with the same kind and the same own input have
\* the same line, whatever the earlier iterations did; the error of an
\* iteration is gone when the next one starts, and the status printed at line
\* 12 is the one received in the same iteration.
C14_OutcomeNotRetained ==
  /\ \A k \in {n \in 1..Len(log) : log[n].kind \in Outcomes} :
       \A j \in {n \in 1..Len(log) : log[n].kind \in Outcomes} :
         OwnInput(k) = OwnInput(j) => stdout[LinesUpTo(k)] = stdout[LinesUpTo(j)]
  /\ pc = "L9" => e = NoException
  /\ pc = "L12" =>
       /\ At(iter, {"response"}) # {}
       /\ response.status = log[Last(At(iter, {"response"}))].status
       /\ response.reason = log[Last(At(iter, {"response"}))].reason

\* C14 witness: the first iteration reported 200 OK and then a failure of the
\* body read; the second iteration, answered 200 OK again, printed the same
\* Status line.
C14_Witness ==
  stdout = << "Status: 200 OK",
              "Request failed: IncompleteRead(0 bytes read)",
              "Status: 200 OK" >>

\* C15: host and path are the ones set at process start in every state, and
\* every request sent, in every iteration, is the GET over HTTPS for that host
\* and path.
C15_TargetImmutable ==
  /\ target = [host |-> "get-lookover-auto-sync-api.rf.gd", path |-> "/script.php"]
  /\ \A k \in {n \in 1..Len(log) : log[n].kind = "request"} :
       log[k].arg = "GET https://get-lookover-auto-sync-api.rf.gd/script.php"

\* C15 witness: the second iteration has sent its request after the first
\* one sent its own and went through the failure handler (conn.close raised).
C15_Witness ==
  /\ At(1, {"request"}) # {}
  /\ \E k \in At(1, {"raise"}) : log[k].at = "L16"
  /\ At(1, {"failed"}) # {}
  /\ \E k \in At(2, {"request"}) :
       log[k].arg = "GET https://get-lookover-auto-sync-api.rf.gd/script.php"

\* C16: conn.close() completes only after the status line of that iteration
\* was received and its body read, and when the sleep that follows a
\* successful iteration begins, and while it lasts, the connection of that
\* iteration is closed.
C16_ClosedAfterReadBeforeSleep ==
  /\ \A k \in {n \in 1..Len(log) : log[n].kind = "close"} :
       /\ \E j \in At(log[k].iter, {"response"}) : j < k
       /\ \E j \in At(log[k].iter, {"read"}) : j < k
       /\ log[k].conn = log[k].iter
  /\ (pc = "L19" /\ At(iter, {"close"}) # {}) =>
       /\ conn = iter
       /\ sock[conn] = "closed"

\* C16 witness: the second iteration succeeded and is sleeping with its
\* connection closed.
C16_Witness ==
  /\ pc = "L19"
  /\ iter = 2
  /\ At(2, {"close"}) # {}
  /\ sock[2] = "closed"

====
